---- MODULE Spec2Model ----
(***************************************************************************)
(* Model of streamlit_app.py (Bill Uploader): one script run that turns    *)
(* uploaded bill images into Purchase rows, previews the combined frame    *)
(* and, on the button, appends it to an Excel workbook or a Google Sheet.  *)
(*                                                                         *)
(* Values are pairs <<type, text>> so that a JSON string "2" and a JSON    *)
(* number 2 stay different values.  Row and column numbers of a sheet are  *)
(* openpyxl's (1-based); startrow and startcol are pandas' (0-based).      *)
(***************************************************************************)
EXTENDS Integers, Sequences, FiniteSets, TLC

VARIABLES storage_option, book, remote, uploaded_files, idx, all_data,
          temp_files, messages, combined_frame, clicked, startrow,
          api_calls, pc

vars == <<storage_option, book, remote, uploaded_files, idx, all_data,
          temp_files, messages, combined_frame, clicked, startrow,
          api_calls, pc>>

\* ---------------------------------------------------------------- bounds
MaxRows == 3
MaxImages == 2
NumCols == 6

\* ---------------------------------------------------------------- values
None == <<"none", "">>
NaN == <<"nan", "">>
Old == <<"str", "old">>
NoFrame == [columns |-> <<"unbound">>, rows |-> <<>>]
NoStartRow == 0 - 1

Max(a, b) == IF a >= b THEN a ELSE b

\* class Purchase: the five fields, in declaration order, and their types
Fields == <<"alcohol", "date", "store", "quantity", "price">>

FieldType == [alcohol |-> "str", date |-> "str", store |-> "str",
              quantity |-> "int", price |-> "int"]

FieldSet == {Fields[i] : i \in 1..Len(Fields)}

\* ---------------------------------------------------------------- inputs
RecA == [alcohol |-> <<"str", "Tito's">>, date |-> <<"str", "01/02/2024">>,
         store |-> <<"str", "BevMo">>, quantity |-> <<"int", "2">>,
         price |-> <<"int", "25">>]

RecB1 == [alcohol |-> <<"str", "Hendrick's">>, date |-> <<"str", "01/03/2024">>,
          store |-> <<"str", "Costco">>, quantity |-> <<"int", "1">>,
          price |-> <<"int", "30">>]

RecB2 == [alcohol |-> <<"str", "Absolut">>, date |-> <<"str", "01/03/2024">>,
          store |-> <<"str", "Costco">>, quantity |-> <<"int", "3">>,
          price |-> <<"int", "18">>]

\* a record without `quantity`
RecMissing == [alcohol |-> <<"str", "Jameson">>, date |-> <<"str", "01/04/2024">>,
               store |-> <<"str", "Safeway">>, price |-> <<"int", "22">>]

\* a record whose `quantity` is a JSON string that is not a number
RecWrong == [alcohol |-> <<"str", "Bacardi">>, date |-> <<"str", "01/05/2024">>,
             store |-> <<"str", "Target">>, quantity |-> <<"str", "two">>,
             price |-> <<"int", "15">>]

\* the uploaded images, named by what happens to them
ImageKinds == {"unreadable", "service_down", "missing_quantity", "wrong_type",
               "no_items", "bill_a", "bill_b"}

\* open(image_path, "rb") / read() succeeds
Encodable(img) == img # "unreadable"

\* what the extraction service answers for an image
ServiceResponse(img) ==
    CASE img = "service_down" -> [status |-> "error", purchases |-> <<>>]
      [] img = "missing_quantity" -> [status |-> "ok", purchases |-> <<RecA, RecMissing>>]
      [] img = "wrong_type" -> [status |-> "ok", purchases |-> <<RecWrong>>]
      [] img = "no_items" -> [status |-> "ok", purchases |-> <<>>]
      [] img = "bill_a" -> [status |-> "ok", purchases |-> <<RecA>>]
      [] img = "bill_b" -> [status |-> "ok", purchases |-> <<RecB1, RecB2>>]
      [] OTHER -> [status |-> "error", purchases |-> <<>>]

\* ---------------------------------------------------------------- schema
Purchase_validate_lenient(rec) == TRUE

\* class Purchase(BaseModel): every field present and of its declared type
Purchase_validate(rec) ==
    /\ FieldSet \subseteq DOMAIN rec
    /\ \A f \in FieldSet : rec[f][1] = FieldType[f]

\* class Bill(BaseModel): purchases: list[Purchase]
Bill_validate(content) ==
    \A i \in 1..Len(content.purchases) : Purchase_validate(content.purchases[i])

\* encode_image: the base64 text, or None when reading the file raises
encode_image(img) == IF Encodable(img) THEN <<"str", img>> ELSE None

\* openai.beta.chat.completions.parse(..., response_format=Bill): raises on a
\* service failure or when the content does not validate against Bill,
\* otherwise hands back message.content
openai_parse(img) ==
    LET resp == ServiceResponse(img) IN
    IF resp.status = "ok" /\ Bill_validate(resp)
    THEN [raised |-> FALSE, content |-> [purchases |-> resp.purchases]]
    ELSE [raised |-> TRUE, content |-> [purchases |-> <<>>]]

\* ---------------------------------------------------------------- frames
\* pd.DataFrame(list of dicts): the columns are the keys that occur, each row
\* holds a record's values under those columns, NaN where a key is absent
DataFrame(purchases) ==
    LET keys == UNION {DOMAIN purchases[i] : i \in 1..Len(purchases)}
        cols == SelectSeq(Fields, LAMBDA f : f \in keys)
    IN [columns |-> cols,
        rows |-> [i \in 1..Len(purchases) |->
                    [j \in 1..Len(cols) |->
                        IF cols[j] \in DOMAIN purchases[i]
                        THEN purchases[i][cols[j]] ELSE NaN]]]

\* parse_purchases_to_dataframe: json.loads, then the 'purchases' list
parse_purchases_to_dataframe(content) ==
    IF "purchases" \in DOMAIN content
    THEN [raised |-> FALSE, frame |-> DataFrame(content.purchases)]
    ELSE [raised |-> TRUE, frame |-> NoFrame]

\* union of two column lists, in order of first appearance
UnionColumns(a, b) ==
    a \o SelectSeq(b, LAMBDA x : \A k \in 1..Len(a) : a[k] # x)

\* the rows of a frame under another column list, NaN for a column it lacks
Reindex(frame, cols) ==
    [i \in 1..Len(frame.rows) |->
        [j \in 1..Len(cols) |->
            IF \E k \in 1..Len(frame.columns) : frame.columns[k] = cols[j]
            THEN frame.rows[i][CHOOSE k \in 1..Len(frame.columns) :
                                    frame.columns[k] = cols[j]]
            ELSE NaN]]

RECURSIVE ConcatColumns(_)
ConcatColumns(frames) ==
    IF frames = <<>> THEN <<>>
    ELSE UnionColumns(ConcatColumns(SubSeq(frames, 1, Len(frames) - 1)),
                      frames[Len(frames)].columns)

RECURSIVE ConcatRows(_, _)
ConcatRows(frames, cols) ==
    IF frames = <<>> THEN <<>>
    ELSE ConcatRows(SubSeq(frames, 1, Len(frames) - 1), cols)
            \o Reindex(frames[Len(frames)], cols)

RECURSIVE ConcatRowsReversed(_, _)
ConcatRowsReversed(frames, cols) ==
    IF frames = <<>> THEN <<>>
    ELSE Reindex(frames[Len(frames)], cols)
            \o ConcatRowsReversed(SubSeq(frames, 1, Len(frames) - 1), cols)

pd_concat_reversed(frames) ==
    [columns |-> ConcatColumns(frames),
     rows |-> ConcatRowsReversed(frames, ConcatColumns(frames))]

\* pd.concat(frames, ignore_index=True)
pd_concat(frames) ==
    [columns |-> ConcatColumns(frames),
     rows |-> ConcatRows(frames, ConcatColumns(frames))]

\* ---------------------------------------------------------------- file store
\* the value of a cell; a cell outside the stored rows has no value
Cell(sheet, r, c) == IF r <= Len(sheet) THEN sheet[r][c] ELSE None

\* openpyxl Worksheet.max_row: the last row holding a cell, 1 for a sheet
\* with no cells
max_row(sheet) == IF Len(sheet) = 0 THEN 1 ELSE Len(sheet)

RECURSIVE ScanRowsOverwriteLast(_, _)
ScanRowsOverwriteLast(sheet, r) ==
    IF r > max_row(sheet) THEN max_row(sheet) - 1
    ELSE IF Cell(sheet, r, 1) = None /\ Cell(sheet, r, 2) = None THEN r - 1
    ELSE ScanRowsOverwriteLast(sheet, r + 1)

\* the for/else over sheet.iter_rows(min_row=1, max_row=sheet.max_row,
\* min_col=1, max_col=2): the first row whose two cells are both None gives
\* row - 1 and breaks; the else branch gives max_row
RECURSIVE ScanRows(_, _)
ScanRows(sheet, r) ==
    IF r > max_row(sheet) THEN max_row(sheet)
    ELSE IF Cell(sheet, r, 1) = None /\ Cell(sheet, r, 2) = None THEN r - 1
    ELSE ScanRows(sheet, r + 1)

\* startrow as append_df_to_excel computes it
FindStartRow(bk, sheet_name) ==
    IF sheet_name \in DOMAIN bk THEN ScanRows(bk[sheet_name], 1) ELSE 0

\* how a frame value is written to a cell: NaN becomes na_rep, the empty text
ToCell(v) == IF v = NaN THEN <<"str", "">> ELSE v

to_excel_no_offset(sheet, df, srow, scol) ==
    LET k == Len(df.rows)
        n == Len(df.columns)
        newlen == IF k = 0 THEN Len(sheet) ELSE Max(Len(sheet), srow + k)
    IN [r \in 1..newlen |->
          [c \in 1..NumCols |->
             IF r - 1 \in srow..(srow + k - 1) /\ c - 1 \in 0..(n - 1)
             THEN ToCell(df.rows[r - srow][c])
             ELSE Cell(sheet, r, c)]]

\* df.to_excel(writer, index=False, header=False, startrow, startcol) on a
\* writer in mode 'a' with if_sheet_exists='overlay': the frame's cells are
\* written over the sheet, every other cell keeps its value
to_excel(sheet, df, srow, scol) ==
    LET k == Len(df.rows)
        n == Len(df.columns)
        newlen == IF k = 0 THEN Len(sheet) ELSE Max(Len(sheet), srow + k)
    IN [r \in 1..newlen |->
          [c \in 1..NumCols |->
             IF r - 1 \in srow..(srow + k - 1) /\ c - 1 \in scol..(scol + n - 1)
             THEN ToCell(df.rows[r - srow][c - scol])
             ELSE Cell(sheet, r, c)]]

\* the workbook after append_df_to_excel(df, path, sheet_name): the target
\* sheet is created when absent, the other sheets are saved as loaded
append_df_to_excel(bk, df, sheet_name) ==
    LET base == IF sheet_name \in DOMAIN bk THEN bk[sheet_name] ELSE <<>>
    IN (sheet_name :> to_excel(base, df, FindStartRow(bk, sheet_name), 1)) @@ bk

\* ---------------------------------------------------------------- remote store
\* combined_frame.values.tolist()
values_tolist(df) == df.rows

\* worksheet.append_rows(values): the rows are added after the last row
append_rows(rows, values) == rows \o values

\* ---------------------------------------------------------------- initial states
RowBlank == [c \in 1..NumCols |-> None]
RowKeyed == [c \in 1..NumCols |-> IF c <= 2 THEN Old ELSE None]
RowHalf == [c \in 1..NumCols |-> IF c = 1 THEN Old ELSE None]
RowNote == [c \in 1..NumCols |-> IF c = 3 THEN Old ELSE None]
RowFull == [c \in 1..NumCols |-> Old]

RowKinds == {RowBlank, RowKeyed, RowHalf, RowNote, RowFull}

Sheets == UNION {[1..n -> RowKinds] : n \in 0..MaxRows}

OtherSheet == <<RowFull, RowKeyed>>

Books == {("Other" :> OtherSheet)}
            \cup {("Sheet1" :> s) @@ ("Other" :> OtherSheet) : s \in Sheets}

Header == <<<<"str", "alcohol">>, <<"str", "date">>, <<"str", "store">>,
            <<"str", "quantity">>, <<"str", "price">>>>

OldRow == <<<<"str", "Rum">>, <<"str", "12/31/2023">>, <<"str", "Vons">>,
            <<"str", "1">>, <<"str", "9">>>>

Remotes == {[found |-> FALSE, rows |-> <<>>],
            [found |-> TRUE, rows |-> <<Header>>],
            [found |-> TRUE, rows |-> <<Header, OldRow>>],
            [found |-> TRUE, rows |-> <<Header, OldRow, OldRow>>]}

Uploads == UNION {[1..n -> ImageKinds] : n \in 0..MaxImages}

Init ==
    /\ storage_option \in {"Excel File", "Google Sheets"}
    /\ IF storage_option = "Excel File"
       THEN book \in Books /\ remote = [found |-> FALSE, rows |-> <<>>]
       ELSE book = ("Other" :> OtherSheet) /\ remote \in Remotes
    /\ uploaded_files \in Uploads
    /\ idx = 1
    /\ all_data = <<>>
    /\ temp_files = {}
    /\ messages = <<>>
    /\ combined_frame = NoFrame
    /\ clicked = FALSE
    /\ startrow = NoStartRow
    /\ api_calls = <<>>
    /\ pc = "loop"

\* ---------------------------------------------------------------- the run
LastIndex == Len(uploaded_files)

ProcessImageAbortOnError ==
    /\ pc = "loop"
    /\ idx <= LastIndex
    /\ LET img == uploaded_files[idx]
           encoded_image == encode_image(img)
           response == openai_parse(img)
           parsed == parse_purchases_to_dataframe(response.content)
       IN IF encoded_image = None
          THEN /\ temp_files' = temp_files \cup {idx}
               /\ messages' = Append(messages, <<"encode_error", idx>>)
               /\ all_data' = all_data
               /\ idx' = LastIndex + 1
          ELSE IF response.raised \/ parsed.raised
          THEN /\ temp_files' = (temp_files \cup {idx}) \ {idx}
               /\ messages' = Append(messages, <<"process_error", idx>>)
               /\ all_data' = all_data
               /\ idx' = LastIndex + 1
          ELSE /\ temp_files' = (temp_files \cup {idx}) \ {idx}
               /\ messages' = Append(messages, <<"extracted", idx>>)
               /\ all_data' = Append(all_data, parsed.frame)
               /\ idx' = idx + 1
    /\ UNCHANGED <<storage_option, book, remote, uploaded_files,
                   combined_frame, clicked, startrow, api_calls, pc>>

\* one iteration of `for uploaded_file in uploaded_files`: the temporary image
\* file is written, encode_image runs and a None result skips the rest of the
\* body; otherwise the try block extracts and parses, the except block reports,
\* and the finally block removes the temporary file
ProcessImage ==
    /\ pc = "loop"
    /\ idx <= LastIndex
    /\ LET img == uploaded_files[idx]
           encoded_image == encode_image(img)
           response == openai_parse(img)
           parsed == parse_purchases_to_dataframe(response.content)
       IN IF encoded_image = None
          THEN /\ temp_files' = temp_files \cup {idx}
               /\ messages' = Append(messages, <<"encode_error", idx>>)
               /\ all_data' = all_data
          ELSE IF response.raised \/ parsed.raised
          THEN /\ temp_files' = (temp_files \cup {idx}) \ {idx}
               /\ messages' = Append(messages, <<"process_error", idx>>)
               /\ all_data' = all_data
          ELSE /\ temp_files' = (temp_files \cup {idx}) \ {idx}
               /\ messages' = Append(messages, <<"extracted", idx>>)
               /\ all_data' = Append(all_data, parsed.frame)
    /\ idx' = idx + 1
    /\ UNCHANGED <<storage_option, book, remote, uploaded_files,
                   combined_frame, clicked, startrow, api_calls, pc>>

\* the for loop runs out of files
EndLoop ==
    /\ pc = "loop"
    /\ idx > LastIndex
    /\ pc' = "combine"
    /\ UNCHANGED <<storage_option, book, remote, uploaded_files, idx, all_data,
                   temp_files, messages, combined_frame, clicked, startrow,
                   api_calls>>

\* `if all_data:` taken: the frames are concatenated and the result displayed
CombineAndPreview ==
    /\ pc = "combine"
    /\ all_data # <<>>
    /\ combined_frame' = pd_concat(all_data)
    /\ messages' = Append(messages, <<"preview", 0>>)
    /\ pc' = "button"
    /\ UNCHANGED <<storage_option, book, remote, uploaded_files, idx, all_data,
                   temp_files, clicked, startrow, api_calls>>

\* `if all_data:` not taken: the run ends
NothingExtracted ==
    /\ pc = "combine"
    /\ all_data = <<>>
    /\ pc' = "done"
    /\ UNCHANGED <<storage_option, book, remote, uploaded_files, idx, all_data,
                   temp_files, messages, combined_frame, clicked, startrow,
                   api_calls>>

\* st.button(...) returns False: the run ends after the preview
ButtonNotClicked ==
    /\ pc = "button"
    /\ clicked' = FALSE
    /\ pc' = "done"
    /\ UNCHANGED <<storage_option, book, remote, uploaded_files, idx, all_data,
                   temp_files, messages, combined_frame, startrow, api_calls>>

AppendToExcelUngated ==
    /\ pc = "combine"
    /\ storage_option = "Excel File"
    /\ clicked' = FALSE
    /\ startrow' = FindStartRow(book, "Sheet1")
    /\ book' = append_df_to_excel(book, pd_concat(all_data), "Sheet1")
    /\ api_calls' = api_calls \o <<"load_workbook", "ExcelWriter.save">>
    /\ messages' = messages \o <<<<"excel_success", 0>>, <<"download", 0>>>>
    /\ pc' = "done"
    /\ UNCHANGED <<storage_option, remote, uploaded_files, idx, all_data,
                   temp_files, combined_frame>>

\* the Excel button returns True: append_df_to_excel(combined_frame, tmp_path),
\* the success message and the download button
AppendToExcel ==
    /\ pc = "button"
    /\ storage_option = "Excel File"
    /\ clicked' = TRUE
    /\ startrow' = FindStartRow(book, "Sheet1")
    /\ book' = append_df_to_excel(book, combined_frame, "Sheet1")
    /\ api_calls' = api_calls \o <<"load_workbook", "ExcelWriter.save">>
    /\ messages' = messages \o <<<<"excel_success", 0>>, <<"download", 0>>>>
    /\ pc' = "done"
    /\ UNCHANGED <<storage_option, remote, uploaded_files, idx, all_data,
                   temp_files, combined_frame>>

\* the Google Sheets button returns True: the worksheet is opened and read,
\* the rows are appended, and the argument of worksheet.update names
\* combined_df, which is bound nowhere: the NameError is caught and reported
\* before update is called.  A worksheet that is not found raises at once.
AppendToGoogleSheets ==
    /\ pc = "button"
    /\ storage_option = "Google Sheets"
    /\ clicked' = TRUE
    /\ IF remote.found
       THEN /\ remote' = [remote EXCEPT
                            !.rows = append_rows(@, values_tolist(combined_frame))]
            /\ api_calls' = api_calls \o <<"worksheet", "get_all_values", "append_rows">>
            /\ messages' = messages \o <<<<"existing_data", 0>>,
                                         <<"append_success", 0>>,
                                         <<"error", 0>>>>
       ELSE /\ remote' = remote
            /\ api_calls' = api_calls \o <<"worksheet">>
            /\ messages' = Append(messages, <<"error", 0>>)
    /\ pc' = "done"
    /\ UNCHANGED <<storage_option, book, uploaded_files, idx, all_data,
                   temp_files, combined_frame, startrow>>

Next ==
    \/ ProcessImage
    \/ EndLoop
    \/ CombineAndPreview
    \/ NothingExtracted
    \/ ButtonNotClicked
    \/ AppendToExcel
    \/ AppendToGoogleSheets

Spec == Init /\ [][Next]_vars

\* ---------------------------------------------------------------- properties
\* the step in which the Excel button branch runs
ExcelAppendStep ==
    storage_option = "Excel File" /\ pc = "button" /\ pc' = "done" /\ clicked'

\* the step in which the Google Sheets button branch runs
GoogleAppendStep ==
    storage_option = "Google Sheets" /\ pc = "button" /\ pc' = "done" /\ clicked'

\* the rows of the target sheet, none when the sheet is absent
TargetSheet(bk) == IF "Sheet1" \in DOMAIN bk THEN bk["Sheet1"] ELSE <<>>

\* a record with all five fields, each of the primitive type the schema names
Complete(rec) ==
    /\ {"alcohol", "date", "store", "quantity", "price"} \subseteq DOMAIN rec
    /\ rec["alcohol"][1] = "str" /\ rec["date"][1] = "str"
    /\ rec["store"][1] = "str"
    /\ rec["quantity"][1] = "int" /\ rec["price"][1] = "int"

Malformed(img) ==
    /\ ServiceResponse(img).status = "ok"
    /\ \E i \in 1..Len(ServiceResponse(img).purchases) :
          ~Complete(ServiceResponse(img).purchases[i])

ShouldSucceed(img) ==
    /\ img # "unreadable"
    /\ ServiceResponse(img).status = "ok"
    /\ ~Malformed(img)

RowOf(rec) ==
    <<rec["alcohol"], rec["date"], rec["store"], rec["quantity"], rec["price"]>>

TableOf(img) ==
    [i \in 1..Len(ServiceResponse(img).purchases) |->
        RowOf(ServiceResponse(img).purchases[i])]

\* the tables of the images that succeed, one after the other in upload order
RECURSIVE ExpectedRows(_)
ExpectedRows(images) ==
    IF images = <<>> THEN <<>>
    ELSE (IF ShouldSucceed(Head(images)) THEN TableOf(Head(images)) ELSE <<>>)
            \o ExpectedRows(Tail(images))

CompleteRow(row) ==
    /\ Len(row) = 5
    /\ row[1][1] = "str" /\ row[2][1] = "str" /\ row[3][1] = "str"
    /\ row[4][1] = "int" /\ row[5][1] = "int"

ReportsFor(i) ==
    {k \in 1..Len(messages) :
        /\ messages[k][2] = i
        /\ messages[k][1] \in {"encode_error", "process_error", "extracted"}}

Said(msg) == \E k \in 1..Len(messages) : messages[k] = msg

WriteCalls == {"ExcelWriter.save", "append_rows", "update"}

RemoteCalls(calls) ==
    SelectSeq(calls, LAMBDA c : c \in {"get_all_values", "append_rows", "update"})

\* C1: append_df_to_excel with a non-empty combined frame leaves every cell
\* of the target sheet that held a value holding the same value.
C1_ExistingCellsKept ==
    [][(ExcelAppendStep /\ Len(combined_frame.rows) > 0) =>
          \A r \in 1..Len(TargetSheet(book)) : \A c \in 1..NumCols :
              TargetSheet(book)[r][c] # None =>
                  Cell(TargetSheet(book'), r, c) = TargetSheet(book)[r][c]]_vars

\* the insertion point as the specification words it
InsertionPoint(bk) ==
    IF "Sheet1" \notin DOMAIN bk THEN 0
    ELSE LET s == bk["Sheet1"]
             empty == {r \in 1..Len(s) : s[r][1] = None /\ s[r][2] = None}
         IN IF empty = {} THEN Len(s)
            ELSE (CHOOSE r \in empty : \A q \in empty : r <= q) - 1

C3_FailureIsolation ==
    /\ \A i \in 1..(idx - 1) : Cardinality(ReportsFor(i)) = 1
    /\ \A i \in 1..LastIndex : i >= idx => ReportsFor(i) = {}
    /\ pc # "loop" => idx = LastIndex + 1
    /\ Len(all_data) =
          Cardinality({i \in 1..(idx - 1) : ShouldSucceed(uploaded_files[i])})
    /\ \A i \in 1..(idx - 1) :
          ShouldSucceed(uploaded_files[i]) <=> Said(<<"extracted", i>>)
    /\ combined_frame # NoFrame =>
          combined_frame.rows = ExpectedRows(uploaded_files)

\* a failing first image, a second image whose rows are the combined frame
C3_Witness ==
    /\ pc = "button"
    /\ LastIndex = 2
    /\ ~ShouldSucceed(uploaded_files[1])
    /\ ShouldSucceed(uploaded_files[2])
    /\ combined_frame.rows = TableOf(uploaded_files[2])
    /\ Len(combined_frame.rows) > 0

C6_EmptyTableNoWrite ==
    (combined_frame # NoFrame /\ Len(combined_frame.rows) = 0) =>
        \A k \in 1..Len(api_calls) : api_calls[k] \notin WriteCalls

\* C7: a confirmed remote reconciliation reads, appends and then updates,
\* without error, and the table ends as the old rows followed by the new.
C7_RemoteSequence ==
    [][(GoogleAppendStep /\ remote.found) =>
          /\ RemoteCalls(api_calls') =
                RemoteCalls(api_calls) \o <<"get_all_values", "append_rows", "update">>
          /\ ~(\E k \in 1..Len(messages') : messages'[k] = <<"error", 0>>)
          /\ remote'.rows = remote.rows \o combined_frame.rows]_vars

\* C8: the store changes and store calls are issued only in a step that
\* follows the preview of a non-empty all_data and in which the button is
\* clicked.
C8_ConfirmationGate ==
    [][(book' # book \/ remote' # remote \/ api_calls' # api_calls) =>
          (Said(<<"preview", 0>>) /\ clicked' /\ all_data # <<>>
              /\ combined_frame # NoFrame)]_vars

\* a confirmed run that wrote to the workbook after the preview
C8_Witness ==
    /\ pc = "done" /\ clicked
    /\ Said(<<"preview", 0>>)
    /\ \E k \in 1..Len(api_calls) : api_calls[k] = "ExcelWriter.save"
    /\ Len(combined_frame.rows) > 0

\* C9: no temporary image file exists between iterations or after the loop.
C9_TempFilesReleased == temp_files = {}

\* C10: append_df_to_excel writes the k rows at rows startrow..startrow+k-1,
\* columns 1..5 (0-based); every other cell of the target sheet and every
\* other sheet is unchanged.
C10_WriteFrame ==
    [][ExcelAppendStep =>
          LET old == TargetSheet(book)
              new == TargetSheet(book')
              k == Len(combined_frame.rows)
          IN /\ DOMAIN book' = DOMAIN book \cup {"Sheet1"}
             /\ \A nm \in DOMAIN book \ {"Sheet1"} : book'[nm] = book[nm]
             /\ Len(new) <= Max(Len(old), startrow' + k)
             /\ \A r \in 1..Max(Len(old), Len(new)) : \A c \in 1..NumCols :
                   IF r \in (startrow' + 1)..(startrow' + k) /\ c \in 2..6
                   THEN Cell(new, r, c) = combined_frame.rows[r - startrow'][c - 1]
                   ELSE Cell(new, r, c) = Cell(old, r, c)]_vars

\* two rows written below two occupied rows, column 0 untouched
C10_Witness ==
    /\ pc = "done" /\ clicked /\ storage_option = "Excel File"
    /\ startrow = 2
    /\ Len(combined_frame.rows) = 2
    /\ Len(TargetSheet(book)) = 4
    /\ book["Sheet1"][1][1] = Old
    /\ book["Sheet1"][3][1] = None
    /\ book["Sheet1"][3][2] = combined_frame.rows[1][1]
    /\ book["Sheet1"][4][6] = combined_frame.rows[2][5]

====
